---- MODULE Spec2Model ----
(***************************************************************************)
(* A model of the realtime messaging core of Backend-chatter: the          *)
(* Socket.IO gateway (config/socket.js, here src/unnamed/part_006), the    *)
(* Redis helpers (src/src/config/redis.js), the Message model and the      *)
(* message service.                                                        *)
(*                                                                         *)
(* Several gateway processes share one Redis (online set, message cache,   *)
(* typing keys, pub/sub channels) and one Store (messages, friends).       *)
(* User identifiers are strings, modelled as sequences of character codes. *)
(***************************************************************************)
EXTENDS Integers, Sequences, FiniteSets, Bags, TLC

\* ------------------------------------------------------------------ bounds
MaxSockets == 2      \* connections accepted in one run, over all processes
MaxQueue == 1        \* publications on their way to one subscriber
MaxTyping == 1       \* (conversation, user) pairs marked as typing at one time
MaxTime == 6         \* seconds the clock runs where expiry is observed
MaxShortTime == 2    \* seconds the clock runs where only timestamps are compared
MaxIdLen == 2        \* length of the identifiers given to generateConversationId
MaxChar == 3         \* character codes 1..MaxChar make up identifiers

\* ------------------------------------------------------- program constants
TYPING_TTL == 5      \* typingIndicators.set: setex(..., 5, '1')
CACHE_TTL == 3600    \* messageCache.set(..., 3600)
Underscore == 0      \* the separator of join('_'), a code no identifier holds

Procs == {1, 2}
UA == <<1>>
UB == <<2>>
UC == <<1, 2>>
Users == {UA, UB, UC}
MsgIds == {1}
NoUser == <<>>
NoMsg == [exists |-> FALSE, sender |-> NoUser, receiver |-> NoUser,
          messageType |-> "none", isRead |-> FALSE, readAt |-> 0, isDeleted |-> FALSE]
NoEntry == [shape |-> "absent", messageType |-> "none", isRead |-> FALSE, readAt |-> 0,
            ttl |-> 0]

VARIABLES
    sockets,       \* every connection accepted so far; a socket's id is its index
    activeUsers,   \* per process: userId -> socketId (0: no entry)
    typingUsers,   \* per process: the local Map conversationId -> Set<userId>, as pairs
    redisEnabled,  \* REDIS_ENABLED: the three Redis clients exist
    redisUp,       \* the Redis connections are established (commands succeed)
    online,        \* Redis set 'online_users'
    sessions,      \* Redis hash 'user_sessions', as the set of its fields
    cache,         \* Redis keys message:<id>
    typingKeys,    \* Redis keys typing:<conversationId>:<userId>, as their expiry times
    channel,       \* per process: publications on their way to its subscriber
    msgs,          \* Store: the Message collection
    friends,       \* Store: User.friends
    now,           \* the clock, in seconds
    tasks,         \* mark-as-read handlers waiting for the Store
    sent,          \* history: the events the last step emitted, with their receivers
    pubd,          \* history: the publications the last step handed to Redis
    last,          \* history: the handler that ran in the last step, and what it saw
    regFailed,     \* history: some presence registry command was skipped or failed
    cidA, cidB, cidFwd, cidRev, cidPc,  \* the generateConversationId harness
    totalConnections,  \* per process: connections accepted so far
    peakConnections,   \* per process: the largest activeUsers.size getConnectionStats saw
    largestSize,       \* history, per process: the largest size activeUsers ever had
    refreshTokens,     \* Store: the RefreshToken collection
    exchanged,         \* history: the refresh tokens exchanged for a new pair so far
    refreshCalls,      \* refreshTokenService calls between their Store read and writes
    requests,          \* Store: the FriendRequest collection
    friendCalls        \* friend service calls between their Store operations

gatewayVars == <<sockets, activeUsers, typingUsers>>
redisVars == <<redisEnabled, redisUp, online, sessions, cache, typingKeys, channel>>
storeVars == <<msgs, friends>>
stepVars == <<sent, pubd, last>>
cidVars == <<cidA, cidB, cidFwd, cidRev, cidPc>>
statsVars == <<totalConnections, peakConnections, largestSize>>
sideVars == <<refreshTokens, exchanged, refreshCalls, requests, friendCalls>>
vars == <<gatewayVars, redisVars, storeVars, stepVars, regFailed, now, tasks, cidVars,
          statsVars, sideVars>>

\* ------------------------------------------------- conversation identity
\* JavaScript's default Array.prototype.sort order on strings: code unit by
\* code unit, a proper prefix first.
RECURSIVE LexLess(_, _)
LexLess(a, b) ==
    IF b = <<>> THEN FALSE
    ELSE IF a = <<>> THEN TRUE
    ELSE IF Head(a) # Head(b) THEN Head(a) < Head(b)
    ELSE LexLess(Tail(a), Tail(b))

\* [userId1, userId2].sort(): the stable sort swaps only when the second is less.
SortPairUnsorted(a, b) == <<a, b>>

SortPair(a, b) == IF LexLess(b, a) THEN <<b, a>> ELSE <<a, b>>

\* [userId1, userId2].sort().join('_')
generateConversationId(userId1, userId2) ==
    LET s == SortPair(userId1, userId2)
    IN  s[1] \o <<Underscore>> \o s[2]

\* ------------------------------------------------------------ Redis helpers
\* A command reaches Redis: the client exists and is connected.
RedisOk == redisEnabled /\ redisUp

\* onlineUsers.add: sadd, or nothing when the client is null or the command fails.
OnlineAddNoop(u) == online

\* A registry that toggles membership instead of adding.
OnlineAddToggle(u) ==
    IF RedisOk
    THEN IF u \in online THEN online \ {u} ELSE online \cup {u}
    ELSE online

OnlineAdd(u) == IF RedisOk THEN online \cup {u} ELSE online

\* onlineUsers.remove: srem, or nothing when the client is null or the command fails.
OnlineRemoveNoop(u) == online

OnlineRemove(u) == IF RedisOk THEN online \ {u} ELSE online

\* onlineUsers.add, its second command: hset user_sessions userId Date.now()
SessionsSet(u) == IF RedisOk THEN sessions \cup {u} ELSE sessions

\* onlineUsers.remove, its second command: hdel user_sessions userId
SessionsDel(u) == IF RedisOk THEN sessions \ {u} ELSE sessions

\* ---------------------------------------------------------------- emitting
LiveOn(p) == {s \in DOMAIN sockets : sockets[s].proc = p /\ sockets[s].st = "live"}

\* An outbound event: its name, the message it carries (0: none), the user it
\* is about and the user the triggering event addresses it to.
Event(kind, msg, from, to) ==
    [kind |-> kind, msg |-> msg, from |-> from, to |-> to]

\* The fields of the payload a handler emits with an event of this kind.
LocalFields(kind) ==
    CASE kind = "receive-message" -> {"message"}
      [] kind = "message-read" -> {"messageId", "readAt"}
      [] kind = "message-deleted" -> {"messageId"}
      [] kind = "typing-start" -> {"userId", "username", "conversationId"}
      [] kind = "typing-stop" -> {"userId", "conversationId"}
      [] kind \in {"user-online", "user-offline"} -> {"userId", "timestamp"}
      [] kind = "conversation-joined" -> {"conversationId", "friendId"}
      [] kind = "online-users" -> {"users"}
      [] OTHER -> {"message"}

\* The fields of the payload the subscriber emits with an event of this kind.
RelayedFields(kind) ==
    CASE kind = "receive-message" -> {"message"}
      [] kind = "message-read" -> {"messageId", "readAt"}
      [] kind = "message-deleted" -> {"messageId"}
      [] kind = "typing-start" -> {"userId", "username"}
      [] kind = "typing-stop" -> {"userId"}
      [] OTHER -> {"userId", "timestamp"}

\* Socket s receives ev, from the handler itself ("local") or from the
\* subscriber ("redis"); again: the handler's own emit had reached s already.
Received(s, ev, via, again) ==
    [sock |-> s, kind |-> ev.kind, msg |-> ev.msg, from |-> ev.from,
     to |-> ev.to, via |-> via, again |-> again,
     fields |-> IF via = "local" THEN LocalFields(ev.kind)
                ELSE RelayedFields(ev.kind)]

\* io.to(socketId).emit(...) on process p: reaches the socket with that id if
\* it is connected to p; an unknown or closed id reaches nobody.
EmitTo(p, sid) == IF sid \in LiveOn(p) THEN {sid} ELSE {}

\* io.emit(...) on process p: every socket connected to p.
EmitAll(p) == LiveOn(p)

\* redisPublisher.publish: one copy for the subscriber of every process, the
\* publishing process included. localTo (history) are the sockets the
\* publishing handler's own emit reached.
Publication(chan, ev, localTo) ==
    [chan |-> chan, kind |-> ev.kind, msg |-> ev.msg, from |-> ev.from,
     to |-> ev.to, localTo |-> localTo]

PublishTo(ch, pub) == [q \in Procs |-> Append(ch[q], pub)]

QueuesHaveRoom == \A q \in Procs : Len(channel[q]) < MaxQueue

\* The handler of a socket event that ran last, on which socket, with which
\* argument, and whether it took its success path. reason: the message of the
\* Error a handshake was refused with; fromCache: messageCache.get gave
\* send-message its message.
LastOp(op, sock, arg, ok) ==
    [op |-> op, sock |-> sock, user |-> NoUser, arg |-> arg, ok |-> ok, status |-> 0,
     threw |-> FALSE, reason |-> "", fromCache |-> FALSE]

\* The handler did not catch an exception or a rejection: it left the handler.
Threw(rec) == [rec EXCEPT !.threw = TRUE]

\* The same for a service called over HTTP on behalf of user.
LastCall(op, user, arg, ok) ==
    [op |-> op, sock |-> 0, user |-> user, arg |-> arg, ok |-> ok, status |-> 0,
     threw |-> FALSE, reason |-> "", fromCache |-> FALSE]

\* The same for a service whose route answers with an HTTP status: 200 when it
\* returns, the statusCode of the AppError it throws otherwise.
LastStatus(op, user, arg, status) ==
    [op |-> op, sock |-> 0, user |-> user, arg |-> arg, ok |-> (status = 200),
     status |-> status, threw |-> FALSE, reason |-> "", fromCache |-> FALSE]

\* ------------------------------------------------------------------- state
InitExceptFriends ==
    /\ sockets = <<>>
    /\ activeUsers = [p \in Procs |-> [u \in Users |-> 0]]
    /\ typingUsers = [p \in Procs |-> {}]
    /\ redisEnabled \in BOOLEAN
    /\ redisUp = TRUE
    /\ online = {}
    /\ sessions = {}
    /\ cache = [m \in MsgIds |-> NoEntry]
    /\ typingKeys = {}
    /\ channel = [p \in Procs |-> <<>>]
    /\ msgs = [m \in MsgIds |-> NoMsg]
    /\ now = 1
    /\ tasks = {}
    /\ sent = {}
    /\ pubd = {}
    /\ last = LastOp("none", 0, 0, FALSE)
    /\ regFailed = FALSE
    /\ cidA = <<>> /\ cidB = <<>> /\ cidFwd = <<>> /\ cidRev = <<>>
    /\ cidPc = "idle"
    /\ totalConnections = [p \in Procs |-> 0]
    /\ peakConnections = [p \in Procs |-> 0]
    /\ largestSize = [p \in Procs |-> 0]
    /\ refreshTokens = {}
    /\ exchanged = {}
    /\ refreshCalls = {}
    /\ requests = {}
    /\ friendCalls = {}

\* No friendships yet.
Init == InitExceptFriends /\ friends = [u \in Users |-> {}]

\* UA and UB have accepted each other; UC is nobody's friend.
InitFriends ==
    /\ InitExceptFriends
    /\ friends = [u \in Users |-> IF u = UC THEN {} ELSE {UA, UB} \ {u}]

\* ------------------------------------------------- connect and disconnect
\* map.size of the local map a process holds
MapSizeOf(map, p) == Cardinality({u \in Users : map[p][u] # 0})

\* getConnectionStats that forgets the peak it had.
SamplePeakLatest(p, current) == [peakConnections EXCEPT ![p] = current]

\* getConnectionStats: if (current > peakConnections) peakConnections = current
SamplePeak(p, current) ==
    IF current > peakConnections[p]
    THEN [peakConnections EXCEPT ![p] = current]
    ELSE peakConnections

\* activeUsers.set(userId, socket.id) keeps the entry the user had already.
ActiveUsersSetIfAbsent(p, u, sid) ==
    IF activeUsers[p][u] = 0 THEN [activeUsers EXCEPT ![p][u] = sid] ELSE activeUsers

\* activeUsers.set(userId, socket.id) on process p
ActiveUsersSet(p, u, sid) == [activeUsers EXCEPT ![p][u] = sid]

\* io.on('connection') for a handshake the authenticator accepted as user u
\* on process p.
ConnectEffects(u, p) ==
    /\ Len(sockets) < MaxSockets
    /\ LET sid == Len(sockets) + 1
           ev == Event("user-online", 0, u, u)
       IN  /\ sockets' = Append(sockets, [user |-> u, proc |-> p, st |-> "live",
                                          rooms |-> {u}])
           /\ activeUsers' = ActiveUsersSet(p, u, sid)
           /\ totalConnections' = [totalConnections EXCEPT ![p] = @ + 1]
           \* const stats = getConnectionStats(), once the entry is set
           /\ peakConnections' = SamplePeak(p, MapSizeOf(ActiveUsersSet(p, u, sid), p))
           /\ largestSize' = [largestSize EXCEPT
                                ![p] = IF MapSizeOf(ActiveUsersSet(p, u, sid), p) > @
                                       THEN MapSizeOf(ActiveUsersSet(p, u, sid), p)
                                       ELSE @]
           /\ online' = OnlineAdd(u)
           /\ sessions' = SessionsSet(u)
           /\ regFailed' = (regFailed \/ ~RedisOk)
           \* io.emit('user-online') reaches every socket of p, the new one
           \* included; the new socket then gets 'online-users'.
           /\ sent' = {Received(s, ev, "local", FALSE) : s \in EmitAll(p) \cup {sid}}
                      \cup {Received(sid, Event("online-users", 0, u, u),
                                     "local", FALSE)}
           /\ pubd' = {}
    /\ UNCHANGED <<typingUsers, redisEnabled, redisUp, cache, typingKeys, channel,
                   storeVars, now, tasks, cidVars, sideVars>>

Connect(u, p) ==
    /\ ConnectEffects(u, p)
    /\ last' = LastOp("connect", Len(sockets) + 1, 0, RedisOk)

\* The rest of socket.on('disconnect') after `await onlineUsers.remove`:
\* typing clean-up, io.emit('user-offline'), publish on 'user_status'.
DisconnectTail(c) ==
    LET u == sockets[c].user
        p == sockets[c].proc
        ev == Event("user-offline", 0, u, u)
        reached == EmitAll(p) \ {c}
        pub == Publication("user_status", ev, reached)
    IN  /\ sockets' = [sockets EXCEPT ![c].st = "closed"]
        /\ typingUsers' = [typingUsers EXCEPT
                              ![p] = {t \in typingUsers[p] : t[2] # u}]
        /\ sent' = {Received(s, ev, "local", FALSE) : s \in reached}
        /\ IF RedisOk
           THEN /\ channel' = PublishTo(channel, pub)
                /\ pubd' = {pub}
           ELSE /\ UNCHANGED channel
                /\ pubd' = {}

\* activeUsers.delete(userId) that leaves the entry in place.
ActiveUsersDeleteSkipped(p, u) == activeUsers

\* activeUsers.delete(userId) on process p
ActiveUsersDelete(p, u) == [activeUsers EXCEPT ![p][u] = 0]

\* `await redisPublisher.publish(...)` on a publisher that exists but has no
\* connection rejects (enableOfflineQueue: false).
PublishRejects == redisEnabled /\ ~redisUp

\* The disconnect handler has no try/catch: a rejected publish leaves it.
DisconnectEnded(rec) == IF PublishRejects THEN Threw(rec) ELSE rec

\* socket.on('disconnect'), explicit or abrupt, up to `await onlineUsers.remove`.
\* With no command on its way to Redis the await resumes before any other
\* event is handled, so the handler then runs to its end in this step.
Disconnect(c) ==
    /\ c \in DOMAIN sockets
    /\ sockets[c].st = "live"
    /\ QueuesHaveRoom
    /\ LET u == sockets[c].user
           p == sockets[c].proc
       IN  /\ activeUsers' = ActiveUsersDelete(p, u)
           /\ online' = OnlineRemove(u)
           /\ sessions' = SessionsDel(u)
           /\ regFailed' = (regFailed \/ ~RedisOk)
           /\ last' = DisconnectEnded(LastOp("disconnect", c, 0, RedisOk))
           /\ IF RedisOk
              THEN /\ sockets' = [sockets EXCEPT ![c].st = "closing"]
                   /\ sent' = {}
                   /\ pubd' = {}
                   /\ UNCHANGED <<typingUsers, channel>>
              ELSE DisconnectTail(c)
    /\ UNCHANGED <<redisEnabled, redisUp, cache, typingKeys, storeVars, now,
                   tasks, cidVars,
                   statsVars, sideVars>>

DisconnectFinish(c) ==
    /\ c \in DOMAIN sockets
    /\ sockets[c].st = "closing"
    /\ QueuesHaveRoom
    /\ DisconnectTail(c)
    /\ last' = DisconnectEnded(LastOp("disconnected", c, 0, RedisOk))
    /\ UNCHANGED <<activeUsers, redisEnabled, sessions, redisUp, online, cache, typingKeys,
                   storeVars, now, tasks, regFailed, cidVars,
                   statsVars, sideVars>>

\* The Redis connections drop, and come back.
RedisDown ==
    /\ redisEnabled /\ redisUp
    /\ redisUp' = FALSE
    \* a subscriber that lost its connection misses what was on its way
    /\ channel' = [p \in Procs |-> <<>>]
    /\ sent' = {} /\ pubd' = {}
    /\ last' = LastOp("redis-down", 0, 0, FALSE)
    /\ UNCHANGED <<gatewayVars, redisEnabled, sessions, online, cache, typingKeys, storeVars,
                   now, tasks, regFailed, cidVars,
                   statsVars, sideVars>>

RedisUp ==
    /\ redisEnabled /\ ~redisUp
    /\ redisUp' = TRUE
    /\ sent' = {} /\ pubd' = {}
    /\ last' = LastOp("redis-up", 0, 0, TRUE)
    /\ UNCHANGED <<gatewayVars, redisEnabled, sessions, online, cache, typingKeys, channel,
                   storeVars, now, tasks, regFailed, cidVars,
                   statsVars, sideVars>>

\* ------------------------------------------------------- the authenticator
\* A handshake credential: the secret it was signed with, whether it has
\* expired, and its payload (id, type). NoToken: none was supplied.
NoToken == [signedWith |-> "none", expired |-> FALSE, id |-> NoUser, type |-> "none"]

UnknownUser == <<3>>

Tokens ==
    {NoToken} \cup
    [signedWith : {"JWT_SECRET_KEY", "JWT_REFRESH_SECRET_KEY"},
     expired : BOOLEAN,
     id : Users \cup {NoUser, UnknownUser},
     type : {"access", "refresh"}]

\* jwt.verify returns the payload of any token.
VerifiesAlways(tok) == TRUE

\* jwt.verify(token, process.env.JWT_SECRET_KEY) returns the payload.
Verifies(tok) == tok.signedWith = "JWT_SECRET_KEY" /\ ~tok.expired

\* io.use(...) without the look-up of the user in the Store.
authenticateWithoutLookup(tok) ==
    IF tok = NoToken \/ ~Verifies(tok) THEN NoUser ELSE tok.id

\* io.use(...): the user the connection is authenticated as, or NoUser when
\* next() is called with an error.
authenticate(tok) ==
    IF tok = NoToken THEN NoUser            \* 'Authentication token required'
    ELSE IF ~Verifies(tok) THEN NoUser      \* 'Authentication failed'
    ELSE IF tok.id = NoUser THEN NoUser     \* 'Invalid token payload'
    ELSE IF tok.id \notin Users THEN NoUser \* 'User not found'
    ELSE tok.id

\* The message of the Error the authenticator hands to next(), "" when it
\* hands none. jwt.verify throws on a bad signature or an expired token and
\* the catch answers for it.
RefusalReason(tok) ==
    IF tok = NoToken THEN "Authentication token required"
    ELSE IF ~Verifies(tok) THEN "Authentication failed"
    ELSE IF tok.id = NoUser THEN "Invalid token payload"
    ELSE IF tok.id \notin Users THEN "User not found"
    ELSE ""

\* A client opens a connection to process p with credential tok.
Handshake(tok, p) ==
    IF authenticate(tok) = NoUser
    THEN /\ last' = [LastOp("handshake-refused", 0, tok, FALSE)
                        EXCEPT !.reason = RefusalReason(tok)]
         /\ sent' = {} /\ pubd' = {}
         /\ UNCHANGED <<gatewayVars, redisVars, storeVars, regFailed, now, tasks,
                        cidVars,
                   statsVars, sideVars>>
    ELSE /\ ConnectEffects(authenticate(tok), p)
         /\ last' = LastOp("connect", Len(sockets) + 1, tok, RedisOk)

\* ----------------------------------------------------------- the subscriber
\* redisSubscriber.on('message') on process p: user_status goes to every socket
\* of p, every other channel to the socket the local map has for pub.to.
SubscriberTargets(p, pub) ==
    IF pub.chan = "user_status"
    THEN EmitAll(p)
    ELSE EmitTo(p, activeUsers[p][pub.to])

Subscriber(p) ==
    /\ channel[p] # <<>>
    /\ LET pub == Head(channel[p])
           ev == Event(pub.kind, pub.msg, pub.from, pub.to)
       IN  sent' = {Received(s, ev, "redis", s \in pub.localTo) :
                       s \in SubscriberTargets(p, pub)}
    /\ pubd' = {}
    /\ last' = LastOp("subscriber", 0, 0, TRUE)
    /\ channel' = [channel EXCEPT ![p] = Tail(channel[p])]
    /\ UNCHANGED <<gatewayVars, redisEnabled, sessions, redisUp, online, cache, typingKeys,
                   storeVars, now, tasks, regFailed, cidVars,
                   statsVars, sideVars>>

\* ---------------------------------------------------------------- messages
FreeMsgIds == {m \in MsgIds : ~msgs[m].exists}

\* What messageCache.set stores: JSON of a populated document (sender and
\* receiver are objects with _id) or of a plain one (they are id strings).
CacheEntryShortLived(shape, doc) ==
    [shape |-> shape, messageType |-> doc.messageType, isRead |-> doc.isRead,
     readAt |-> doc.readAt, ttl |-> CACHE_TTL - 1]

CacheEntry(shape, doc) ==
    [shape |-> shape, messageType |-> doc.messageType, isRead |-> doc.isRead,
     readAt |-> doc.readAt, ttl |-> CACHE_TTL]

\* messageCache.set that writes nothing.
CacheSetSkipped(m, shape, doc) == cache

\* messageCache.set: setex, or nothing when the client is null or the command fails.
CacheSet(m, shape, doc) ==
    IF RedisOk THEN [cache EXCEPT ![m] = CacheEntry(shape, doc)] ELSE cache

\* messageCache.get: the parsed entry, or null (NoEntry) on a miss, a null
\* client or a failed command.
CacheGet(m) == IF RedisOk THEN cache[m] ELSE NoEntry

\* messageCache.delete
CacheDelete(m) == IF RedisOk THEN [cache EXCEPT ![m] = NoEntry] ELSE cache

\* checkFriendship: userId2 is in userId1's friends list.
checkFriendship(userId1, userId2) == userId2 \in friends[userId1]

\* sendTextMessage (HTTP): create the message, populate it, cache it.
SendTextMessage(senderId, receiverId) ==
    /\ FreeMsgIds # {}
    /\ checkFriendship(senderId, receiverId)
    /\ LET m == CHOOSE x \in FreeMsgIds : \A y \in FreeMsgIds : x <= y
           doc == [exists |-> TRUE, sender |-> senderId, receiver |-> receiverId,
                   messageType |-> "text", isRead |-> FALSE, readAt |-> 0,
                   isDeleted |-> FALSE]
       IN  /\ msgs' = [msgs EXCEPT ![m] = doc]
           /\ cache' = CacheSet(m, "populated", doc)
           /\ last' = LastCall("sendTextMessage", senderId, m, RedisOk)
    /\ sent' = {} /\ pubd' = {}
    /\ UNCHANGED <<gatewayVars, redisEnabled, sessions, redisUp, online, typingKeys, channel,
                   friends, regFailed, now, tasks, cidVars,
                   statsVars, sideVars>>

\* ------------------------------------------------------ socket.on handlers
IsLive(c) == c \in DOMAIN sockets /\ sockets[c].st = "live"

ErrorTo(c) == {Received(c, Event("error", 0, NoUser, NoUser), "local", FALSE)}

\* The relay tail shared by the handlers: io.to(socketId).emit on p for the
\* entry the local map has for `to`, then publish when redisPublisher exists.
\* A publish that fails rejects; onReject is what the handler's catch emits.
Relay(c, chan, ev, onReject) ==
    LET p == sockets[c].proc
        reached == EmitTo(p, activeUsers[p][ev.to])
        pub == Publication(chan, ev, reached)
        emitted == {Received(s, ev, "local", FALSE) : s \in reached}
    IN  IF ~redisEnabled
        THEN /\ sent' = emitted /\ pubd' = {} /\ UNCHANGED channel
        ELSE IF redisUp
        THEN /\ sent' = emitted /\ pubd' = {pub} /\ channel' = PublishTo(channel, pub)
        ELSE /\ sent' = emitted \cup onReject /\ pubd' = {} /\ UNCHANGED channel

\* message.receiver._id.toString() of the message the handler holds: the
\* receiver of a populated message; a plain one has no _id there and the
\* expression throws.
ReceiverOfSender(m) == msgs[m].sender

ReceiverOf(m) == msgs[m].receiver

\* socket.on('send-message') {messageId: m}
SendMessageEvent(c, m) ==
    /\ IsLive(c)
    /\ QueuesHaveRoom
    /\ LET hit == CacheGet(m)
           found == hit.shape # "absent" \/ msgs[m].exists
           shape == IF hit.shape # "absent" THEN hit.shape ELSE "populated"
       IN  /\ last' = [LastOp("send-message", c, m, found /\ shape = "populated")
                          EXCEPT !.fromCache = (hit.shape # "absent")]
           /\ IF ~found
              THEN \* 'Message not found'
                   /\ sent' = ErrorTo(c) /\ pubd' = {}
                   /\ UNCHANGED <<cache, channel>>
              ELSE /\ cache' = IF hit.shape = "absent"
                               THEN CacheSet(m, "populated", msgs[m])
                               ELSE cache
                   /\ IF shape = "plain"
                      THEN \* TypeError, caught: 'Failed to send message'
                           /\ sent' = ErrorTo(c) /\ pubd' = {}
                           /\ UNCHANGED channel
                      ELSE Relay(c, "new_message",
                                 Event("receive-message", m, sockets[c].user,
                                       ReceiverOf(m)),
                                 ErrorTo(c))
    /\ UNCHANGED <<gatewayVars, redisEnabled, sessions, redisUp, online, typingKeys, storeVars,
                   regFailed, now, tasks, cidVars,
                   statsVars, sideVars>>

\* typingIndicators.set: setex with a 5 second expiry.
\* A key, with the time of the setex that wrote it (history) and its expiry.
TypingKey(conv, u, ttl) == [conv |-> conv, user |-> u, at |-> now, exp |-> now + ttl]

\* Redis drops a key when its expiry has come.
LiveKeys == {k \in typingKeys : now < k.exp}

TypingSetSlow(conv, u) ==
    {k \in typingKeys : ~(k.conv = conv /\ k.user = u)}
    \cup {TypingKey(conv, u, TYPING_TTL + 1)}

TypingSet(conv, u) ==
    IF RedisOk
    THEN {k \in typingKeys : ~(k.conv = conv /\ k.user = u)}
         \cup {TypingKey(conv, u, TYPING_TTL)}
    ELSE typingKeys

\* typingIndicators.remove: del
TypingRemove(conv, u) ==
    IF RedisOk
    THEN {k \in typingKeys : ~(k.conv = conv /\ k.user = u)}
    ELSE typingKeys

\* typingIndicators.isTyping: exists === 1; false on a null client or a failure.
isTyping(conv, u) ==
    RedisOk /\ \E k \in LiveKeys : k.conv = conv /\ k.user = u

\* Every (conversation, user) marked as typing somewhere.
TypingMarks ==
    {<<k.conv, k.user>> : k \in LiveKeys} \cup UNION {typingUsers[p] : p \in Procs}

\* socket.on('typing-start') {friendId}
TypingStart(c, friendId) ==
    /\ IsLive(c)
    /\ QueuesHaveRoom
    /\ LET u == sockets[c].user
           p == sockets[c].proc
           conv == generateConversationId(u, friendId)
       IN  /\ Cardinality(TypingMarks \cup {<<conv, u>>}) <= MaxTyping
           /\ typingUsers' = [typingUsers EXCEPT ![p] = @ \cup {<<conv, u>>}]
           /\ typingKeys' = TypingSet(conv, u)
           /\ Relay(c, "user_typing", Event("typing-start", 0, u, friendId), {})
           /\ last' = LastOp("typing-start", c, friendId, RedisOk)
    /\ UNCHANGED <<sockets, activeUsers, redisEnabled, sessions, redisUp, online, cache,
                   storeVars, regFailed, now, tasks, cidVars,
                   statsVars, sideVars>>

\* socket.on('typing-stop') {friendId}
TypingStop(c, friendId) ==
    /\ IsLive(c)
    /\ QueuesHaveRoom
    /\ LET u == sockets[c].user
           p == sockets[c].proc
           conv == generateConversationId(u, friendId)
       IN  /\ typingUsers' = [typingUsers EXCEPT ![p] = @ \ {<<conv, u>>}]
           /\ typingKeys' = TypingRemove(conv, u)
           /\ Relay(c, "user_typing", Event("typing-stop", 0, u, friendId), {})
           /\ last' = LastOp("typing-stop", c, friendId, RedisOk)
    /\ UNCHANGED <<sockets, activeUsers, redisEnabled, sessions, redisUp, online, cache,
                   storeVars, regFailed, now, tasks, cidVars,
                   statsVars, sideVars>>

\* The condition of socket.on('mark-as-read'):
\* message && message.receiver.toString() === userId && !message.isRead
ShouldMarkReadAgain(m, u) == msgs[m].exists /\ msgs[m].receiver = u

ShouldMarkReadAnyone(m, u) == msgs[m].exists /\ ~msgs[m].isRead

ShouldMarkRead(m, u) == msgs[m].exists /\ msgs[m].receiver = u /\ ~msgs[m].isRead

\* socket.on('mark-as-read') {messageId: m}, up to `await Message.findById`
\* and the test of what it found.
MarkAsReadFind(c, m) ==
    /\ IsLive(c)
    /\ LET go == ShouldMarkRead(m, sockets[c].user)
       IN  /\ tasks' = IF go THEN tasks \cup {[sock |-> c, msg |-> m]} ELSE tasks
           /\ last' = LastOp("mark-as-read", c, m, go)
    /\ sent' = {} /\ pubd' = {}
    /\ UNCHANGED <<gatewayVars, redisVars, storeVars, regFailed, now, cidVars,
                   statsVars, sideVars>>

\* The rest of the handler: save isRead and readAt, rewrite the cache entry
\* from message.toObject() (not populated), emit message-read to the sender's
\* socket, publish on 'message_read'.
MarkAsReadSave(t) ==
    /\ t \in tasks
    /\ QueuesHaveRoom
    /\ LET m == t.msg
           doc == [msgs[m] EXCEPT !.isRead = TRUE, !.readAt = now]
       IN  /\ msgs' = [msgs EXCEPT ![m] = doc]
           /\ cache' = CacheSet(m, "plain", doc)
           /\ Relay(t.sock, "message_read",
                    Event("message-read", m, msgs[m].receiver, msgs[m].sender), {})
           /\ last' = LastOp("mark-as-read-save", t.sock, m, RedisOk)
    /\ tasks' = tasks \ {t}
    /\ UNCHANGED <<gatewayVars, redisEnabled, sessions, redisUp, online, typingKeys, friends,
                   regFailed, now, cidVars,
                   statsVars, sideVars>>

\* socket.on('delete-message') {messageId: m}
DeleteMessageEvent(c, m) ==
    /\ IsLive(c)
    /\ QueuesHaveRoom
    /\ last' = LastOp("delete-message", c, m, msgs[m].exists)
    /\ IF ~msgs[m].exists
       THEN /\ sent' = ErrorTo(c) /\ pubd' = {}
            /\ UNCHANGED <<cache, channel>>
       ELSE LET u == sockets[c].user
                friendId == IF msgs[m].sender = u THEN msgs[m].receiver
                            ELSE msgs[m].sender
            IN  /\ cache' = CacheDelete(m)
                /\ Relay(c, "message_deleted",
                         Event("message-deleted", m, u, friendId), {})
    /\ UNCHANGED <<gatewayVars, redisEnabled, sessions, redisUp, online, typingKeys, storeVars,
                   regFailed, now, tasks, cidVars,
                   statsVars, sideVars>>

\* ------------------------------------------------- message service (HTTP)
\* markMessageAsRead(messageId, userId): 404, 403, or markAsRead() when unread.
\* Neither the cache nor any socket is touched.
MarkMessageAsRead(m, u) ==
    /\ LET go == ShouldMarkRead(m, u)
       IN  /\ msgs' = IF go
                      THEN [msgs EXCEPT ![m].isRead = TRUE, ![m].readAt = now]
                      ELSE msgs
           /\ last' = LastCall("markMessageAsRead", u, m, go)
    /\ sent' = {} /\ pubd' = {}
    /\ UNCHANGED <<gatewayVars, redisVars, friends, regFailed, now, tasks, cidVars,
                   statsVars, sideVars>>

\* markConversationAsRead(userId, friendId): updateMany on the unread messages
\* of the conversation whose receiver is userId.
MarkConversationAsRead(u, friendId) ==
    /\ LET conv == generateConversationId(u, friendId)
           hit == {m \in MsgIds :
                      /\ msgs[m].exists
                      /\ generateConversationId(msgs[m].sender, msgs[m].receiver) = conv
                      /\ msgs[m].receiver = u
                      /\ ~msgs[m].isRead}
       IN  /\ msgs' = [m \in MsgIds |->
                         IF m \in hit
                         THEN [msgs[m] EXCEPT !.isRead = TRUE, !.readAt = now]
                         ELSE msgs[m]]
           /\ last' = LastCall("markConversationAsRead", u, 0, hit # {})
    /\ sent' = {} /\ pubd' = {}
    /\ UNCHANGED <<gatewayVars, redisVars, friends, regFailed, now, tasks, cidVars,
                   statsVars, sideVars>>

\* sendImageMessage, sendVideoMessage, sendDocumentMessage, sendAudioMessage,
\* sendLinkMessage (HTTP): as sendTextMessage, with their messageType.
MediaTypes == {"image", "video", "document", "audio", "link"}

SendMediaMessage(type, senderId, receiverId) ==
    /\ type \in MediaTypes
    /\ FreeMsgIds # {}
    /\ checkFriendship(senderId, receiverId)
    /\ LET m == CHOOSE x \in FreeMsgIds : \A y \in FreeMsgIds : x <= y
           doc == [exists |-> TRUE, sender |-> senderId, receiver |-> receiverId,
                   messageType |-> type, isRead |-> FALSE, readAt |-> 0,
                   isDeleted |-> FALSE]
       IN  /\ msgs' = [msgs EXCEPT ![m] = doc]
           /\ cache' = CacheSet(m, "populated", doc)
           /\ last' = LastCall("sendMediaMessage", senderId, m, RedisOk)
    /\ sent' = {} /\ pubd' = {}
    /\ UNCHANGED <<gatewayVars, redisEnabled, sessions, redisUp, online, typingKeys,
                   channel, friends, regFailed, now, tasks, cidVars,
                   statsVars, sideVars>>

\* messageSchema.methods.softDelete: the record stays, flagged.
softDelete(doc) == [doc EXCEPT !.isDeleted = TRUE]

\* The sender test of deleteMessage: message.sender.toString() !== userId
MayDeleteAnyone(m, u) == TRUE

MayDelete(m, u) == msgs[m].sender = u

\* deleteMessage(messageId, userId): 404, 403, or soft delete and
\* messageCache.delete.
DeleteMessage(m, u) ==
    /\ IF ~msgs[m].exists
       THEN /\ last' = LastStatus("deleteMessage", u, m, 404)
            /\ UNCHANGED <<msgs, cache>>
       ELSE IF ~MayDelete(m, u)
       THEN /\ last' = LastStatus("deleteMessage", u, m, 403)
            /\ UNCHANGED <<msgs, cache>>
       ELSE /\ msgs' = [msgs EXCEPT ![m] = softDelete(msgs[m])]
            /\ cache' = CacheDelete(m)
            /\ last' = LastStatus("deleteMessage", u, m, 200)
    /\ sent' = {} /\ pubd' = {}
    /\ UNCHANGED <<gatewayVars, redisEnabled, sessions, redisUp, online, typingKeys,
                   channel, friends, regFailed, now, tasks, cidVars,
                   statsVars, sideVars>>

\* A second passes; Redis drops the keys whose expiry has come.
Tick ==
    /\ now < MaxTime
    /\ now' = now + 1
    /\ typingKeys' = {k \in typingKeys : now + 1 < k.exp}
    /\ sent' = {} /\ pubd' = {}
    /\ last' = LastOp("tick", 0, 0, TRUE)
    /\ UNCHANGED <<gatewayVars, redisEnabled, sessions, redisUp, online, cache, channel,
                   storeVars, regFailed, tasks, cidVars,
                   statsVars, sideVars>>

\* The same, in runs that need only a few distinct instants.
ShortTick == now < MaxShortTime /\ Tick

\* ----------------------------------------------------- conversation rooms
\* user.friends.some(f => f.toString() === friendId)
IsFriendAlways(u, friendId) == TRUE

IsFriend(u, friendId) == friendId \in friends[u]

JoinedEvent(c, friendId) ==
    Received(c, Event("conversation-joined", 0, sockets[c].user, friendId),
             "local", FALSE)

\* socket.on('join-conversation') {friendId}
JoinConversation(c, friendId) ==
    /\ IsLive(c)
    /\ LET u == sockets[c].user
           ok == IsFriend(u, friendId)
           conv == generateConversationId(u, friendId)
       IN  /\ last' = LastOp("join-conversation", c, friendId, ok)
           /\ IF ok
              THEN /\ sockets' = [sockets EXCEPT ![c].rooms = @ \cup {conv}]
                   /\ sent' = {JoinedEvent(c, friendId)}
              ELSE \* 'You can only chat with friends'
                   /\ sent' = ErrorTo(c)
                   /\ UNCHANGED sockets
    /\ pubd' = {}
    /\ UNCHANGED <<activeUsers, typingUsers, redisVars, storeVars, regFailed, now,
                   tasks, cidVars,
                   statsVars, sideVars>>

\* socket.on('leave-conversation') {friendId}
LeaveConversation(c, friendId) ==
    /\ IsLive(c)
    /\ LET conv == generateConversationId(sockets[c].user, friendId)
       IN  sockets' = [sockets EXCEPT ![c].rooms = @ \ {conv}]
    /\ sent' = {} /\ pubd' = {}
    /\ last' = LastOp("leave-conversation", c, friendId, TRUE)
    /\ UNCHANGED <<activeUsers, typingUsers, redisVars, storeVars, regFailed, now,
                   tasks, cidVars,
                   statsVars, sideVars>>

\* socket.on('leave-conversation') with no payload: `const { friendId } = data`
\* throws, and the handler has no try/catch.
LeaveConversationNoData(c) ==
    /\ IsLive(c)
    /\ sent' = {} /\ pubd' = {}
    /\ last' = Threw(LastOp("leave-conversation", c, NoUser, FALSE))
    /\ UNCHANGED <<gatewayVars, redisVars, storeVars, regFailed, now, tasks, cidVars,
                   statsVars, sideVars>>

\* acceptFriendRequest: each user is added to the other's friends list.
AcceptFriendRequest(senderId, receiverId) ==
    /\ senderId # receiverId
    /\ receiverId \notin friends[senderId]
    /\ friends' = [friends EXCEPT ![senderId] = @ \cup {receiverId},
                                  ![receiverId] = @ \cup {senderId}]
    /\ sent' = {} /\ pubd' = {}
    /\ last' = LastOp("acceptFriendRequest", 0, 0, TRUE)
    /\ UNCHANGED <<gatewayVars, redisVars, msgs, regFailed, now, tasks, cidVars,
                   statsVars, sideVars>>

\* removeFriend: each user is pulled from the other's friends list.
RemoveFriend(u, friendId) ==
    /\ friendId \in friends[u]
    /\ friends' = [friends EXCEPT ![u] = @ \ {friendId},
                                  ![friendId] = @ \ {u}]
    /\ sent' = {} /\ pubd' = {}
    /\ last' = LastOp("removeFriend", 0, 0, TRUE)
    /\ UNCHANGED <<gatewayVars, redisVars, msgs, regFailed, now, tasks, cidVars,
                   statsVars, sideVars>>

\* ------------------------------------------ the presence registry, called
\* What a helper hands back to its caller: a value of some JavaScript type, or
\* an exception (raised).
Returned(type, num, bool, list) ==
    [raised |-> FALSE, type |-> type, num |-> num, bool |-> bool, list |-> list]

Undefined == Returned("undefined", 0, FALSE, {})

Raised == [raised |-> TRUE, type |-> "undefined", num |-> 0, bool |-> FALSE, list |-> {}]

\* try { return await command } catch (error) { log; return fallback }
CatchRethrows(commandOk, value, fallback) == IF commandOk THEN value ELSE Raised

Catch(commandOk, value, fallback) == IF commandOk THEN value ELSE fallback

\* if (!redisClient) return fallback, then the guarded command.
Guarded(value, fallback) ==
    IF ~redisEnabled THEN fallback ELSE Catch(redisUp, value, fallback)

\* The connection may drop while a helper awaits its first command: the second
\* command then fails (stays = FALSE).
DropsAfterFirst(stays) == redisUp' = (redisUp /\ (stays \/ ~redisEnabled))

\* onlineUsers.add(userId), called directly
RegistryAdd(u, stays) ==
    /\ online' = OnlineAdd(u)
    /\ sessions' = IF stays THEN SessionsSet(u) ELSE sessions
    /\ DropsAfterFirst(stays)
    /\ last' = LastCall("onlineUsers.add", u, Guarded(Undefined, Undefined),
                        RedisOk /\ stays)
    /\ sent' = {} /\ pubd' = {}
    /\ UNCHANGED <<gatewayVars, redisEnabled, cache, typingKeys, channel, storeVars,
                   regFailed, now, tasks, cidVars,
                   statsVars, sideVars>>

\* onlineUsers.remove(userId), called directly
RegistryRemove(u, stays) ==
    /\ online' = OnlineRemove(u)
    /\ sessions' = IF stays THEN SessionsDel(u) ELSE sessions
    /\ DropsAfterFirst(stays)
    /\ last' = LastCall("onlineUsers.remove", u, Guarded(Undefined, Undefined),
                        RedisOk /\ stays)
    /\ sent' = {} /\ pubd' = {}
    /\ UNCHANGED <<gatewayVars, redisEnabled, cache, typingKeys, channel, storeVars,
                   regFailed, now, tasks, cidVars,
                   statsVars, sideVars>>

\* onlineUsers.isOnline(userId): what sismember answers (1 or 0), or false.
isOnline(u) ==
    Guarded(Returned("number", IF u \in online THEN 1 ELSE 0, FALSE, {}),
            Returned("boolean", 0, FALSE, {}))

\* onlineUsers.getAll(): what smembers answers, or [].
getAll == Guarded(Returned("list", 0, FALSE, online), Returned("list", 0, FALSE, {}))

\* onlineUsers.count(): what scard answers, or 0.
count == Guarded(Returned("number", Cardinality(online), FALSE, {}),
                 Returned("number", 0, FALSE, {}))

\* JavaScript truthiness of a returned value, as `if (isOnline)` tests it.
Truthy(r) == (r.type = "number" /\ r.num # 0) \/ (r.type = "boolean" /\ r.bool)

\* One of the three reading operations is called.
RegistryRead(op, u) ==
    /\ op \in {"onlineUsers.isOnline", "onlineUsers.getAll", "onlineUsers.count"}
    /\ last' = LastCall(op, u,
                        CASE op = "onlineUsers.isOnline" -> isOnline(u)
                          [] op = "onlineUsers.getAll" -> getAll
                          [] OTHER -> count,
                        RedisOk)
    /\ sent' = {} /\ pubd' = {}
    /\ UNCHANGED <<gatewayVars, redisVars, storeVars, regFailed, now, tasks, cidVars,
                   statsVars, sideVars>>

\* --------------------------------------- the generateConversationId harness
RECURSIVE SeqsUpTo(_)
SeqsUpTo(n) ==
    IF n = 0 THEN {<<>>}
    ELSE LET shorter == SeqsUpTo(n - 1)
         IN  shorter \cup {Append(q, ch) : q \in shorter, ch \in 1..MaxChar}

\* The identifiers a caller may pass.
Ids == SeqsUpTo(MaxIdLen)

CidPick(a, b) ==
    /\ cidPc = "idle"
    /\ cidA' = a /\ cidB' = b
    /\ cidPc' = "picked"
    /\ UNCHANGED <<cidFwd, cidRev, gatewayVars, redisVars, storeVars, stepVars,
                   regFailed, now, tasks, statsVars, sideVars>>

CidCall ==
    /\ cidPc = "picked"
    /\ cidFwd' = generateConversationId(cidA, cidB)
    /\ cidRev' = generateConversationId(cidB, cidA)
    /\ cidPc' = "done"
    /\ UNCHANGED <<cidA, cidB, gatewayVars, redisVars, storeVars, stepVars,
                   regFailed, now, tasks, statsVars, sideVars>>

CidReset ==
    /\ cidPc = "done"
    /\ cidA' = <<>> /\ cidB' = <<>> /\ cidFwd' = <<>> /\ cidRev' = <<>>
    /\ cidPc' = "idle"
    /\ UNCHANGED <<gatewayVars, redisVars, storeVars, stepVars, regFailed, now, tasks,
                   statsVars, sideVars>>

\* ------------------------------------------------------------ specifications
Next ==
    \/ \E u \in Users, p \in Procs : Connect(u, p)
    \/ \E c \in 1..MaxSockets : Disconnect(c)
    \/ \E c \in 1..MaxSockets : DisconnectFinish(c)
    \/ \E p \in Procs : Subscriber(p)
    \/ RedisDown
    \/ RedisUp

Spec == Init /\ [][Next]_vars

\* The event relay: every inbound event of the gateway, on processes that keep
\* their Redis connections (or run with Redis disabled).
RelayNext ==
    \/ \E u \in Users, p \in Procs : Connect(u, p)
    \/ \E c \in 1..MaxSockets : Disconnect(c)
    \/ \E c \in 1..MaxSockets : DisconnectFinish(c)
    \/ \E p \in Procs : Subscriber(p)
    \/ \E a, b \in Users : SendTextMessage(a, b)
    \/ \E c \in 1..MaxSockets, m \in MsgIds : SendMessageEvent(c, m)
    \/ \E c \in 1..MaxSockets, f \in Users : TypingStart(c, f)
    \/ \E c \in 1..MaxSockets, f \in Users : TypingStop(c, f)
    \/ \E c \in 1..MaxSockets, m \in MsgIds : MarkAsReadFind(c, m)
    \/ \E t \in tasks : MarkAsReadSave(t)
    \/ \E c \in 1..MaxSockets, m \in MsgIds : DeleteMessageEvent(c, m)

RelaySpec == InitFriends /\ [][RelayNext]_vars

\* Messages: the relay without the typing events.
MessageNext ==
    \/ \E u \in Users, p \in Procs : Connect(u, p)
    \/ \E c \in 1..MaxSockets : Disconnect(c)
    \/ \E c \in 1..MaxSockets : DisconnectFinish(c)
    \/ \E p \in Procs : Subscriber(p)
    \/ \E a, b \in Users : SendTextMessage(a, b)
    \/ \E c \in 1..MaxSockets, m \in MsgIds : SendMessageEvent(c, m)
    \/ \E c \in 1..MaxSockets, m \in MsgIds : MarkAsReadFind(c, m)
    \/ \E t \in tasks : MarkAsReadSave(t)
    \/ \E c \in 1..MaxSockets, m \in MsgIds : DeleteMessageEvent(c, m)

MessageSpec == InitFriends /\ [][MessageNext]_vars

\* Read receipts: the mark-as-read event, the two HTTP services, and the clock.
ReadNext ==
    \/ \E u \in Users, p \in Procs : Connect(u, p)
    \/ \E c \in 1..MaxSockets : Disconnect(c)
    \/ \E c \in 1..MaxSockets : DisconnectFinish(c)
    \/ \E p \in Procs : Subscriber(p)
    \/ \E a, b \in Users : SendTextMessage(a, b)
    \/ \E c \in 1..MaxSockets, m \in MsgIds : MarkAsReadFind(c, m)
    \/ \E t \in tasks : MarkAsReadSave(t)
    \/ \E m \in MsgIds, u \in Users : MarkMessageAsRead(m, u)
    \/ \E u, f \in Users : MarkConversationAsRead(u, f)
    \/ ShortTick

ReadSpec == InitFriends /\ [][ReadNext]_vars

\* Conversation rooms of the accepted connections, while friendships come and go.
JoinNext ==
    \/ \E u \in Users, p \in Procs : Connect(u, p)
    \/ \E c \in 1..MaxSockets, f \in Users : JoinConversation(c, f)
    \/ \E c \in 1..MaxSockets, f \in Users : LeaveConversation(c, f)
    \/ \E a, b \in Users : AcceptFriendRequest(a, b)
    \/ \E a, b \in Users : RemoveFriend(a, b)

JoinSpec == Init /\ [][JoinNext]_vars

\* Typing indicators and the clock, with Redis enabled or disabled.
TypingNext ==
    \/ \E u \in Users, p \in Procs : Connect(u, p)
    \/ \E c \in 1..MaxSockets : Disconnect(c)
    \/ \E c \in 1..MaxSockets : DisconnectFinish(c)
    \/ \E p \in Procs : Subscriber(p)
    \/ \E c \in 1..MaxSockets, f \in Users : TypingStart(c, f)
    \/ \E c \in 1..MaxSockets, f \in Users : TypingStop(c, f)
    \/ Tick

TypingSpec == Init /\ [][TypingNext]_vars

\* generateConversationId on every pair of identifiers.
CidNext ==
    \/ \E a, b \in Ids : CidPick(a, b)
    \/ CidCall
    \/ CidReset

CidSpec == Init /\ [][CidNext]_vars

\* The presence registry under direct calls, while the connection comes and goes.
RegistryNext ==
    \/ \E u \in Users, stays \in BOOLEAN : RegistryAdd(u, stays)
    \/ \E u \in Users, stays \in BOOLEAN : RegistryRemove(u, stays)
    \/ \E u \in Users : RegistryRead("onlineUsers.isOnline", u)
    \/ RegistryRead("onlineUsers.getAll", NoUser)
    \/ RegistryRead("onlineUsers.count", NoUser)
    \/ RedisDown
    \/ RedisUp

RegistrySpec == Init /\ [][RegistryNext]_vars

\* The lifetime of a message: created over HTTP, relayed, deleted over HTTP or
\* by the gateway event, while the Redis connection comes and goes.
LifetimeNext ==
    \/ \E u \in Users, p \in Procs : Connect(u, p)
    \/ \E p \in Procs : Subscriber(p)
    \/ \E a, b \in Users : SendTextMessage(a, b)
    \/ \E type \in MediaTypes, a, b \in Users : SendMediaMessage(type, a, b)
    \/ \E c \in 1..MaxSockets, m \in MsgIds : SendMessageEvent(c, m)
    \/ \E m \in MsgIds, u \in Users : DeleteMessage(m, u)
    \/ \E c \in 1..MaxSockets, m \in MsgIds : DeleteMessageEvent(c, m)
    \/ RedisDown
    \/ RedisUp

LifetimeSpec == InitFriends /\ [][LifetimeNext]_vars

\* Connections as clients open them, with any credential.
AuthNext ==
    \/ \E tok \in Tokens, p \in Procs : Handshake(tok, p)
    \/ \E c \in 1..MaxSockets : Disconnect(c)
    \/ \E c \in 1..MaxSockets : DisconnectFinish(c)
    \/ \E p \in Procs : Subscriber(p)

AuthSpec == Init /\ [][AuthNext]_vars

\* The gateway while the Redis connection comes and goes.
DegradedNext ==
    \/ \E u \in Users, p \in Procs : Connect(u, p)
    \/ \E c \in 1..MaxSockets : Disconnect(c)
    \/ \E c \in 1..MaxSockets : DisconnectFinish(c)
    \/ \E p \in Procs : Subscriber(p)
    \/ \E a, b \in Users : SendTextMessage(a, b)
    \/ \E c \in 1..MaxSockets, m \in MsgIds : SendMessageEvent(c, m)
    \/ RedisDown
    \/ RedisUp

DegradedSpec == InitFriends /\ [][DegradedNext]_vars

\* ------------------------------------------------------------------ claims
HasLiveSession(u) == \E s \in DOMAIN sockets : sockets[s].user = u /\ sockets[s].st = "live"

\* C1 (as claimed): with the registry enabled and none of its commands failed,
\* a user is a member of the online set iff some process holds a live session
\* of that user.
C1_OnlineIffLiveSession ==
    (redisEnabled /\ ~regFailed) =>
        \A u \in Users : (u \in online) <=> HasLiveSession(u)

C3_OnlyToAddressee ==
    \A d \in sent :
        /\ d.kind = "receive-message" => sockets[d.sock].user = msgs[d.msg].receiver
        /\ d.kind = "message-read" => sockets[d.sock].user = msgs[d.msg].sender
        /\ d.kind \in {"typing-start", "typing-stop"} => sockets[d.sock].user = d.to

\* C3 witness: a subscriber has just handed receive-message to a socket of
\* another process than the sender's, while a socket of a third party is live.
C3_Witness ==
    \E d \in sent :
        /\ d.kind = "receive-message" /\ d.via = "redis"
        /\ \E s \in DOMAIN sockets :
              /\ sockets[s].st = "live"
              /\ sockets[s].user # msgs[d.msg].receiver

\* C4 (as claimed, its safety half): when the send-message handler has run for
\* a persisted message m on the socket of m's sender, with the backbone
\* available and m's receiver connected to another process, m has been
\* published on new_message for that process's subscriber to deliver.
C4_CrossProcessSendIsRelayed ==
    (/\ last.op = "send-message"
     /\ redisEnabled /\ redisUp
     /\ msgs[last.arg].exists
     /\ sockets[last.sock].user = msgs[last.arg].sender
     /\ \E b \in DOMAIN sockets :
           /\ sockets[b].st = "live"
           /\ sockets[b].user = msgs[last.arg].receiver
           /\ sockets[b].proc # sockets[last.sock].proc
           /\ activeUsers[sockets[b].proc][sockets[b].user] = b)
    => \E pub \in pubd :
           /\ pub.chan = "new_message" /\ pub.msg = last.arg
           /\ pub.to = msgs[last.arg].receiver

\* C5 (as claimed): no socket receives the event of one trigger a second time.
C5_AtMostOnce == \A d \in sent : ~d.again

\* The user on whose behalf the last handler or service ran.
Caller == IF last.sock \in DOMAIN sockets THEN sockets[last.sock].user ELSE last.user

\* What a read receipt may change or send: the message documents, the cache,
\* the pending handlers, the emitted events and the publications.
ReadEffects == <<msgs, cache, tasks, channel>>

\* C6: mark-as-read is idempotent. A mark-as-read by the receiver (gateway
\* event or markMessageAsRead service) of a message that is already read
\* leaves isRead and readAt as they are, starts no save, rewrites no cache
\* entry, emits nothing and publishes nothing.
C6_MarkAsReadIdempotent ==
    [][(/\ last'.op \in {"mark-as-read", "markMessageAsRead"}
        /\ msgs[last'.arg].exists
        /\ msgs[last'.arg].isRead
        /\ Caller' = msgs[last'.arg].receiver)
       => (/\ UNCHANGED ReadEffects
           /\ sent' = {} /\ pubd' = {})]_vars

\* C6 witness: the receiver's socket has just sent mark-as-read for a message
\* that was read at an earlier instant; nothing was started and readAt is
\* that of the first read.
C6_Witness ==
    /\ last.op = "mark-as-read" /\ ~last.ok
    /\ msgs[last.arg].exists /\ msgs[last.arg].isRead
    /\ Caller = msgs[last.arg].receiver
    /\ msgs[last.arg].readAt < now
    /\ tasks = {}

\* C7: a mark-as-read by anyone but the receiver, as a gateway event or through
\* the markMessageAsRead service, never changes isRead or readAt, never
\* rewrites the cache entry, and never emits or publishes message-read.
C7_OnlyReceiverMarksRead ==
    [][(/\ last'.op \in {"mark-as-read", "markMessageAsRead"}
        /\ msgs[last'.arg].exists
        /\ Caller' # msgs[last'.arg].receiver)
       => (/\ UNCHANGED ReadEffects
           /\ sent' = {} /\ pubd' = {})]_vars

\* C7 witness: the sender's socket has just sent mark-as-read for an unread
\* message that is cached, and the message is still unread.
C7_Witness ==
    /\ last.op = "mark-as-read"
    /\ msgs[last.arg].exists /\ ~msgs[last.arg].isRead
    /\ Caller = msgs[last.arg].sender
    /\ Caller # msgs[last.arg].receiver
    /\ cache[last.arg].shape = "populated"

\* C8: join-conversation naming a user who is not in the caller's friends list
\* is answered with an error event, joins no room, sends no
\* conversation-joined and leaves the connection open; a socket enters a room
\* only by join-conversation naming a friend, and the room is the
\* ConversationID of the caller and that friend.
C8_JoinOnlyWithFriends ==
    [][/\ (last'.op = "join-conversation" /\ last'.arg \notin friends[Caller'])
          => /\ \E d \in sent' : d.kind = "error" /\ d.sock = last'.sock
             /\ \A d \in sent' : d.kind # "conversation-joined"
             /\ sockets'[last'.sock].rooms = sockets[last'.sock].rooms
             /\ sockets'[last'.sock].st = "live"
       /\ (last'.op = "join-conversation" /\ last'.arg \in friends[Caller'])
          => generateConversationId(Caller', last'.arg) \in sockets'[last'.sock].rooms
       /\ \A c \in DOMAIN sockets :
             \A r \in sockets'[c].rooms \ sockets[c].rooms :
                /\ last'.op = "join-conversation" /\ last'.sock = c
                /\ last'.arg \in friends[sockets[c].user]
                /\ r = generateConversationId(sockets[c].user, last'.arg)]_vars

\* C8 witness: a socket has just been refused the conversation with a user who
\* has friends, but not the caller.
C8_Witness ==
    /\ last.op = "join-conversation" /\ ~last.ok
    /\ friends[last.arg] # {}
    /\ Caller \notin friends[last.arg]
    /\ generateConversationId(Caller, last.arg) \notin sockets[last.sock].rooms
    /\ \E d \in sent : d.kind = "error" /\ d.sock = last.sock

\* C9: generateConversationId(a, b) = generateConversationId(b, a) for all
\* identifiers a and b.
C9_ConversationIdSymmetric ==
    cidPc = "done" => cidFwd = cidRev

\* C9 witness: the function has been called on two different identifiers given
\* in descending order, one a proper prefix of the other.
C9_Witness ==
    /\ cidPc = "done"
    /\ cidA # cidB
    /\ LexLess(cidB, cidA)
    /\ Len(cidB) < Len(cidA)
    /\ cidFwd = cidB \o <<Underscore>> \o cidA

\* C10: isTyping(conversation, user) is true only while less than 5 seconds
\* have passed since the last typing-start of that user in that conversation
\* was handled, whether or not a typing-stop or the disconnect handler ran.
C10_TypingExpires ==
    \A k \in typingKeys :
        isTyping(k.conv, k.user) => now < k.at + TYPING_TTL

\* C10 witness: a user sent typing-start and no typing-stop (the process still
\* holds the local mark), the connection is being closed, and isTyping is
\* false because the key has expired.
C10_Witness ==
    /\ redisEnabled
    /\ \E p \in Procs : \E t \in typingUsers[p] :
          /\ ~isTyping(t[1], t[2])
          /\ \E c \in DOMAIN sockets :
                /\ sockets[c].user = t[2] /\ sockets[c].proc = p
                /\ sockets[c].st = "closing"
    /\ now > TYPING_TTL

\* C11: the Presence Registry's add and remove are idempotent. add(u) for a
\* member and remove(u) for a non-member leave the online set as it is, and
\* neither raises to its caller.
C11_RegistryIdempotent ==
    [][/\ (last'.op = "onlineUsers.add" /\ last'.user \in online)
          => online' = online /\ ~last'.arg.raised
       /\ (last'.op = "onlineUsers.remove" /\ last'.user \notin online)
          => online' = online /\ ~last'.arg.raised]_vars

\* C11 witness: a second remove of a user, after a first one succeeded, has
\* just reached Redis while another user is still a member.
C11_Witness ==
    /\ last.op = "onlineUsers.remove" /\ last.ok
    /\ last.user \notin online
    /\ last.user \notin sessions
    /\ online # {}

\* The registry abstains: the client is null, or the command finds no connection.
RegistryFails == ~redisEnabled \/ ~redisUp

C13_CacheNeverStale ==
    \A m \in MsgIds :
        cache[m].shape # "absent" =>
            /\ cache[m].isRead = msgs[m].isRead
            /\ cache[m].readAt = msgs[m].readAt
            /\ ~msgs[m].isDeleted

\* C14: with the backbone available, right after a send operation of the
\* message service returned, the cache holds the created message as it is
\* persisted, populated, with a TTL of 3600 seconds.
C14_SendCaches ==
    (last.op \in {"sendTextMessage", "sendMediaMessage"} /\ last.ok) =>
        /\ msgs[last.arg].exists
        /\ cache[last.arg].shape = "populated"
        /\ cache[last.arg].messageType = msgs[last.arg].messageType
        /\ cache[last.arg].isRead = msgs[last.arg].isRead
        /\ cache[last.arg].readAt = msgs[last.arg].readAt
        /\ cache[last.arg].ttl = 3600

\* C14 witness: a link message has just been sent and cached, Redis being
\* reachable.
C14_Witness ==
    /\ last.op = "sendMediaMessage" /\ last.ok
    /\ msgs[last.arg].messageType = "link"
    /\ cache[last.arg].shape = "populated"
    /\ redisEnabled /\ redisUp

C16_EventDeleteIsSoft ==
    (last.op = "delete-message" /\ last.ok /\ redisEnabled /\ redisUp) =>
        /\ msgs[last.arg].isDeleted
        /\ cache[last.arg].shape = "absent"

\* C17 (as claimed): delete-message from a connection whose user is not the
\* sender of the message removes no cache entry and has no message-deleted
\* emitted or published.
C17_OnlySenderDeletes ==
    [][(/\ last'.op = "delete-message"
        /\ msgs[last'.arg].exists
        /\ Caller' # msgs[last'.arg].sender)
       => (/\ cache' = cache
           /\ sent' = {} /\ pubd' = {}
           /\ channel' = channel)]_vars

\* C18 (as claimed): a connection is accepted only for a credential whose
\* type is "access".
C18_OnlyAccessTokens ==
    last.op = "connect" => last.arg.type = "access"

\* C19 (as claimed): with the backbone unavailable, send-message for a message
\* whose receiver is connected to the same process delivers receive-message
\* to the receiver and sends no error to the sender, and a disconnect
\* completes its local clean-up and local user-offline broadcast without
\* leaving the handler by a rejection.
C19_DegradesToLocal ==
    /\ (/\ last.op = "send-message"
        /\ ~(redisEnabled /\ redisUp)
        /\ msgs[last.arg].exists
        /\ \E b \in LiveOn(sockets[last.sock].proc) :
              /\ sockets[b].user = msgs[last.arg].receiver
              /\ activeUsers[sockets[b].proc][sockets[b].user] = b)
       => /\ \E d \in sent :
                /\ d.kind = "receive-message" /\ d.msg = last.arg
                /\ sockets[d.sock].user = msgs[last.arg].receiver
          /\ \A d \in sent : d.kind # "error"
    /\ (/\ last.op \in {"disconnect", "disconnected"}
        /\ ~(redisEnabled /\ redisUp))
       => /\ sockets[last.sock].st = "closed"
          /\ activeUsers[sockets[last.sock].proc][sockets[last.sock].user] = 0
          /\ \A s \in LiveOn(sockets[last.sock].proc) :
                \E d \in sent : d.kind = "user-offline" /\ d.sock = s
          /\ ~last.threw

\* C20 (as claimed): a user without a live session is not reported online,
\* whatever became of the registry removal.
C20_OfflineAfterLastSession ==
    \A u \in Users : ~HasLiveSession(u) => ~Truthy(isOnline(u))

\* The events a handler relays to one addressee.
RelayOps == {"send-message", "typing-start", "typing-stop", "mark-as-read-save",
             "delete-message"}

\* C21: with the publisher available, a relaying handler (send-message,
\* typing-start, typing-stop, an effective mark-as-read, delete-message on a
\* message that exists) publishes exactly once, whether or not the recipient
\* is connected to its process, and its local emit has reached the recipient's
\* socket when the local map has one.
C21_PublishesExactlyOnce ==
    (/\ last.op \in RelayOps
     /\ RedisOk
     /\ (last.op \in {"send-message", "delete-message"} => msgs[last.arg].exists))
    => \E pub \in pubd :
          /\ pubd = {pub}
          /\ \A s \in EmitTo(sockets[last.sock].proc,
                             activeUsers[sockets[last.sock].proc][pub.to]) :
                \E d \in sent : d.sock = s /\ d.via = "local" /\ d.kind = pub.kind

\* C22: a connection the gateway accepted is announced to the other processes:
\* with the publisher available, the connection handler publishes user-online
\* for the user on 'user_status', from where the subscriber of every sibling
\* process hands it to its clients.
C22_ConnectIsPublished ==
    (last.op = "connect" /\ RedisOk)
    => \E pub \in pubd :
          /\ pub.chan = "user_status"
          /\ pub.kind = "user-online"
          /\ pub.from = sockets[last.sock].user

\* The handlers that relay to one addressee, while the Redis connection comes
\* and goes.
FailureNext ==
    \/ \E u \in Users, p \in Procs : Connect(u, p)
    \/ \E p \in Procs : Subscriber(p)
    \/ \E a, b \in Users : SendTextMessage(a, b)
    \/ \E c \in 1..MaxSockets, m \in MsgIds : SendMessageEvent(c, m)
    \/ \E c \in 1..MaxSockets, f \in Users : TypingStart(c, f)
    \/ \E c \in 1..MaxSockets, m \in MsgIds : MarkAsReadFind(c, m)
    \/ \E t \in tasks : MarkAsReadSave(t)
    \/ \E c \in 1..MaxSockets, m \in MsgIds : DeleteMessageEvent(c, m)
    \/ RedisDown
    \/ RedisUp

FailureSpec == InitFriends /\ [][FailureNext]_vars

\* A step of the handler that ran last failed: the message it names is not in
\* the Store, or its publish was rejected.
RelayStepFailed ==
    \/ /\ last.op \in {"send-message", "mark-as-read", "delete-message"}
       /\ ~msgs[last.arg].exists
    \/ /\ last.op \in RelayOps
       /\ PublishRejects
       /\ (last.op \in {"send-message", "delete-message"} => msgs[last.arg].exists)

\* C23: when a step of an inbound handler fails (the message is not found,
\* the backbone rejects the publish), the triggering connection receives an
\* error event and no connection receives anything else.
C23_FailuresAnswered ==
    RelayStepFailed
    => /\ ErrorTo(last.sock) \subseteq sent
       /\ \A d \in sent : d.sock = last.sock /\ d.kind = "error"

\* Connections that join and leave conversations and close, while the Redis
\* connection comes and goes.
EscapeNext ==
    \/ \E u \in Users, p \in Procs : Connect(u, p)
    \/ \E c \in 1..MaxSockets : Disconnect(c)
    \/ \E c \in 1..MaxSockets : DisconnectFinish(c)
    \/ \E p \in Procs : Subscriber(p)
    \/ \E c \in 1..MaxSockets, f \in Users : JoinConversation(c, f)
    \/ \E c \in 1..MaxSockets, f \in Users : LeaveConversation(c, f)
    \/ \E c \in 1..MaxSockets : LeaveConversationNoData(c)
    \/ RedisDown
    \/ RedisUp

EscapeSpec == InitFriends /\ [][EscapeNext]_vars

\* C24: no inbound event lets an exception or a rejection leave its handler,
\* whatever the payload (leave-conversation without one included) and whatever
\* the state of the backbone (a disconnect whose publish fails included), and
\* leave-conversation always succeeds.
C24_NothingEscapes ==
    /\ ~last.threw
    /\ last.op = "leave-conversation" => last.ok

\* C25: the authenticator refuses a handshake with a reason that tells the
\* cause apart: no credential is answered 'Authentication token required', a
\* credential that does not verify (wrong signature, expired) is answered with
\* another reason, a credential whose identity the Store does not hold is
\* refused; the connection handler runs only for a credential that is present,
\* verifies, and names a stored user.
C25_RefusedByCause ==
    /\ last.op = "handshake-refused" =>
          /\ last.reason # ""
          /\ (last.arg = NoToken) <=> (last.reason = "Authentication token required")
          /\ (/\ last.arg # NoToken
              /\ (last.arg.signedWith # "JWT_SECRET_KEY" \/ last.arg.expired))
             => last.reason = "Authentication failed"
    /\ last.op = "connect" =>
          /\ last.arg # NoToken
          /\ last.arg.signedWith = "JWT_SECRET_KEY"
          /\ ~last.arg.expired
          /\ last.arg.id \in Users
          /\ sockets[last.sock].user = last.arg.id

\* A handshake without credential, one with an expired credential and one for
\* an unknown user have been refused, each at its own moment; here the expired.
C25_Witness ==
    /\ last.op = "handshake-refused"
    /\ last.arg # NoToken
    /\ last.arg.signedWith = "JWT_SECRET_KEY"
    /\ last.arg.expired
    /\ last.reason = "Authentication failed"
    /\ \E s \in DOMAIN sockets : sockets[s].st = "live"

\* A credential the authenticator has to refuse: absent, not verifiable, or
\* naming no stored user.
MustRefuse(tok) ==
    \/ tok = NoToken
    \/ tok.signedWith # "JWT_SECRET_KEY"
    \/ tok.expired
    \/ tok.id \notin Users

C27_MapHoldsLatest ==
    /\ last.op = "connect" =>
          activeUsers[sockets[last.sock].proc][sockets[last.sock].user] = last.sock
    /\ \A p \in Procs, u \in Users :
          activeUsers[p][u] # 0 =>
             /\ activeUsers[p][u] \in DOMAIN sockets
             /\ sockets[activeUsers[p][u]].user = u
             /\ sockets[activeUsers[p][u]].proc = p
             /\ \A s \in DOMAIN sockets :
                   (sockets[s].user = u /\ sockets[s].proc = p) => s <= activeUsers[p][u]

\* A user connected to a process a second time while the first connection was
\* live, and the entry is the second socket.
C27_Witness ==
    /\ last.op = "connect"
    /\ last.sock = 2
    /\ sockets[1].st = "live"
    /\ sockets[1].user = sockets[2].user
    /\ sockets[1].proc = sockets[2].proc
    /\ activeUsers[sockets[2].proc][sockets[2].user] = 2

\* C28: once the disconnect handler of a user's last connection has completed,
\* the user is marked as typing nowhere: in no local typing set, and isTyping
\* is false for the user in every conversation.
C28_NoTypingAfterDisconnect ==
    (/\ last.op \in {"disconnect", "disconnected"}
     /\ sockets[last.sock].st = "closed"
     /\ ~HasLiveSession(sockets[last.sock].user))
    => LET u == sockets[last.sock].user
       IN  /\ \A p \in Procs : \A t \in typingUsers[p] : t[2] # u
           /\ \A a, b \in Users : ~isTyping(generateConversationId(a, b), u)

C30_SamePayloadOnBothPaths ==
    \A d \in sent :
       /\ d.via = "redis" => d.fields = LocalFields(d.kind)
       /\ d.kind = "typing-start" => d.fields = {"userId", "username", "conversationId"}
       /\ d.kind = "typing-stop" => d.fields = {"userId", "conversationId"}

\* GET /health on process p: getConnectionStats()
GetConnectionStats(p) ==
    /\ peakConnections' = SamplePeak(p, MapSizeOf(activeUsers, p))
    /\ last' = LastCall("getConnectionStats", NoUser,
                        [proc |-> p,
                         current |-> MapSizeOf(activeUsers, p),
                         peak |-> SamplePeak(p, MapSizeOf(activeUsers, p))[p],
                         total |-> totalConnections[p]], TRUE)
    /\ sent' = {} /\ pubd' = {}
    /\ UNCHANGED <<gatewayVars, redisVars, storeVars, regFailed, now, tasks, cidVars,
                   totalConnections, largestSize, sideVars>>

\* Connections come and go while the health route is asked for the counts.
StatsNext ==
    \/ \E u \in Users, p \in Procs : Connect(u, p)
    \/ \E c \in 1..MaxSockets : Disconnect(c)
    \/ \E c \in 1..MaxSockets : DisconnectFinish(c)
    \/ \E p \in Procs : Subscriber(p)
    \/ \E p \in Procs : GetConnectionStats(p)

StatsSpec == Init /\ [][StatsNext]_vars

\* C31: getConnectionStats returns current equal to the size of the local
\* map, peak equal to the largest size the map has ever had (so peak >=
\* current) and total equal to the number of connections accepted so far, with
\* total >= peak; total never decreases.
C31_StatsAreExact ==
    /\ [](last.op = "getConnectionStats" =>
             /\ last.arg.current = MapSizeOf(activeUsers, last.arg.proc)
             /\ last.arg.peak = largestSize[last.arg.proc]
             /\ last.arg.peak >= last.arg.current
             /\ last.arg.total =
                   Cardinality({s \in DOMAIN sockets : sockets[s].proc = last.arg.proc})
             /\ last.arg.total >= last.arg.peak)
    /\ [][\A p \in Procs : totalConnections'[p] >= totalConnections[p]]_vars

\* The counts are asked for after two users had connected to the process and
\* one of them has left: the peak is above the current size.
C31_Witness ==
    /\ last.op = "getConnectionStats"
    /\ last.arg.peak = 2
    /\ last.arg.current = 1
    /\ last.arg.total = 2

\* ------------------------------------------------------ the reconnect policy
MaxTimes == 60

RETRY_STEP == 50
RETRY_CAP == 2000
RETRY_LIMIT == 3

\* The retryStrategy returned null: ioredis stops reconnecting.
Null == Returned("null", 0, FALSE, {})

\* Math.min(a, b)
Min(a, b) == IF a < b THEN a ELSE b

\* A retryStrategy that never gives up.
retryStrategyUnbounded(times) ==
    Returned("number", Min(times * RETRY_STEP, RETRY_CAP), FALSE, {})

\* redisConfig.retryStrategy(times)
retryStrategy(times) ==
    IF ~redisEnabled \/ times > RETRY_LIMIT
    THEN Null
    ELSE Returned("number", Min(times * RETRY_STEP, RETRY_CAP), FALSE, {})

\* ioredis asks the policy what to do after the times-th failed attempt.
RetryNext ==
    \E times \in 1..MaxTimes :
    /\ last' = [LastOp("retryStrategy", 0, times, retryStrategy(times) # Null)
                  EXCEPT !.status = retryStrategy(times).num]
    /\ sent' = {} /\ pubd' = {}
    /\ UNCHANGED <<gatewayVars, redisVars, storeVars, regFailed, now, tasks, cidVars,
                   statsVars, sideVars>>

RetrySpec == Init /\ [][RetryNext]_vars

\* C32: retryStrategy(times) returns min(50 * times, 2000) milliseconds for
\* times in 1..3 and null for every larger times and whenever Redis is
\* disabled: no delay exceeds 2000 ms and no retry is scheduled after the
\* third.
C32_RetryIsBounded ==
    last.op = "retryStrategy" =>
       LET times == last.arg
       IN  /\ (redisEnabled /\ times \in 1..3) =>
                 /\ last.ok
                 /\ last.status = (IF 50 * times < 2000 THEN 50 * times ELSE 2000)
           /\ (~redisEnabled \/ times > 3) => ~last.ok
           /\ last.ok => (times <= 3 /\ last.status <= 2000)

\* The third attempt failed with Redis enabled: a last retry after 150 ms.
C32_Witness ==
    /\ last.op = "retryStrategy"
    /\ redisEnabled
    /\ last.arg = 3
    /\ last.ok
    /\ last.status = 150

\* C33: while a user has a live connection on a process, the local map of
\* that process has an entry for the user, also when an earlier connection of
\* the user to the process is disconnected after a later one was opened.
C33_LiveUserHasEntry ==
    \A s \in DOMAIN sockets :
       sockets[s].st = "live" => activeUsers[sockets[s].proc][sockets[s].user] # 0

\* C34: every entry userId -> socketId of a local map names a connection that
\* is live on that process and was authenticated as userId: no entry outlives
\* the connection it names.
C34_EntriesNameLiveSockets ==
    \A p \in Procs, u \in Users :
       activeUsers[p][u] # 0 =>
          /\ activeUsers[p][u] \in DOMAIN sockets
          /\ sockets[activeUsers[p][u]].st = "live"
          /\ sockets[activeUsers[p][u]].proc = p
          /\ sockets[activeUsers[p][u]].user = u

\* A connection has been closed and its process keeps the entry of another
\* user, whose connection is live.
C34_Witness ==
    /\ last.op \in {"disconnect", "disconnected"}
    /\ sockets[last.sock].st = "closed"
    /\ activeUsers[sockets[last.sock].proc][sockets[last.sock].user] = 0
    /\ \E u \in Users : activeUsers[sockets[last.sock].proc][u] # 0

\* C35: receive-message for a message is relayed (emitted or published) only
\* when the connection that emitted send-message is authenticated as the
\* sender of the message: a send-message that names somebody else's message
\* delivers and publishes nothing.
C35_OnlySenderRelays ==
    (/\ last.op = "send-message"
     /\ msgs[last.arg].exists
     /\ sockets[last.sock].user # msgs[last.arg].sender)
    => /\ pubd = {}
       /\ \A d \in sent : d.kind # "receive-message"

\* C36: once a message has been deleted, no later gateway event re-creates
\* its cache entry or delivers it: a send-message that names a deleted message
\* emits and publishes no receive-message and leaves no cache entry for it.
C36_DeletedStaysGone ==
    (/\ last.op = "send-message"
     /\ msgs[last.arg].exists
     /\ msgs[last.arg].isDeleted)
    => /\ pubd = {}
       /\ \A d \in sent : d.kind # "receive-message"
       /\ cache[last.arg].shape = "absent"

\* C37: two mark-as-read events for the same unread message, interleaved in
\* any way at their Store read and their Store write, set readAt once and
\* relay message-read at most once: no handler saves and relays for a message
\* that has been marked as read since the handler read it.
C37_ConcurrentReadsMarkOnce ==
    [][(last'.op = "mark-as-read-save" /\ tasks' # tasks)
       => ~msgs[last'.arg].isRead]_vars

\* ----------------------------------------------------------- refresh tokens
MaxCalls == 2

\* The user who logs in, and the refresh tokens a client can present: a token
\* is the signature of its payload, so the user and the second it was issued
\* in (iat) make the token.
RefreshTokenStrings == [user : {UA}, iat : 1..MaxShortTime]

\* Logout without a refresh token.
AllDevices == [user |-> NoUser, iat |-> 0]

\* generateRefreshToken: jwt.sign({ id, type: 'refresh' }, JWT_REFRESH_SECRET)
generateRefreshToken(userId) == [user |-> userId, iat |-> now]

\* RefreshToken.create on a collection whose token field is unique: the
\* document is stored unless the token is stored already (E11000).
Creates(tok) == tok \notin refreshTokens

\* loginService, once the password has been verified
LoginService(u) ==
    LET tok == generateRefreshToken(u)
    IN  /\ refreshTokens' = refreshTokens \cup {tok}
        /\ last' = LastStatus("loginService", u, tok, IF Creates(tok) THEN 200 ELSE 500)
        /\ sent' = {} /\ pubd' = {}
        /\ UNCHANGED <<gatewayVars, redisVars, storeVars, regFailed, now, tasks, cidVars,
                       statsVars, exchanged, refreshCalls, requests, friendCalls>>

\* RefreshToken.findOne({ token, userId, expiresAt: { $gt: Date.now() } }),
\* within the seven days a token is valid for.
StoredToken(tok) == tok \in refreshTokens

\* refreshTokenService(tok) up to `await RefreshToken.deleteOne`: verify, look
\* the token up, generate the new pair.
RefreshFind(tok) ==
    /\ IF StoredToken(tok)
       THEN /\ Cardinality(refreshCalls) < MaxCalls
            /\ refreshCalls' = refreshCalls \cup
                  {[id |-> CHOOSE i \in 1..MaxCalls :
                              /\ \A c \in refreshCalls : c.id # i
                              /\ \A j \in 1..MaxCalls :
                                    (\A c \in refreshCalls : c.id # j) => i <= j,
                    tok |-> tok, new |-> generateRefreshToken(tok.user),
                    pc |-> "delete"]}
            /\ last' = LastCall("refreshTokenService.findOne", tok.user, tok, TRUE)
       ELSE /\ UNCHANGED refreshCalls
            /\ last' = [LastStatus("refreshTokenService", tok.user, tok, 401)
                          EXCEPT !.reason = "Invalid or expired refresh token"]
    /\ sent' = {} /\ pubd' = {}
    /\ UNCHANGED <<gatewayVars, redisVars, storeVars, regFailed, now, tasks, cidVars,
                   statsVars, refreshTokens, exchanged, requests, friendCalls>>

\* await RefreshToken.deleteOne({ token })
RefreshDelete(call) ==
    /\ call.pc = "delete"
    /\ refreshTokens' = refreshTokens \ {call.tok}
    /\ refreshCalls' = (refreshCalls \ {call}) \cup {[call EXCEPT !.pc = "create"]}
    /\ last' = LastCall("refreshTokenService.deleteOne", call.tok.user, call.tok, TRUE)
    /\ sent' = {} /\ pubd' = {}
    /\ UNCHANGED <<gatewayVars, redisVars, storeVars, regFailed, now, tasks, cidVars,
                   statsVars, exchanged, requests, friendCalls>>

\* await RefreshToken.create({ userId, token: newRefreshToken, expiresAt }),
\* then the new pair is returned; a duplicate key error is rethrown as it is.
RefreshCreate(call) ==
    /\ call.pc = "create"
    /\ refreshCalls' = refreshCalls \ {call}
    /\ IF Creates(call.new)
       THEN /\ refreshTokens' = refreshTokens \cup {call.new}
            /\ exchanged' = exchanged \cup {call.tok}
            /\ last' = LastStatus("refreshTokenService", call.tok.user, call.tok, 200)
       ELSE /\ UNCHANGED <<refreshTokens, exchanged>>
            /\ last' = [LastStatus("refreshTokenService", call.tok.user, call.tok, 500)
                          EXCEPT !.reason = "E11000 duplicate key error"]
    /\ sent' = {} /\ pubd' = {}
    /\ UNCHANGED <<gatewayVars, redisVars, storeVars, regFailed, now, tasks, cidVars,
                   statsVars, requests, friendCalls>>

\* logoutService(userId, refreshToken): deleteOne({ userId, token }), or
\* deleteMany({ userId }) when no token is given.
LogoutService(u, tok) ==
    /\ refreshTokens' = IF tok = AllDevices
                        THEN {t \in refreshTokens : t.user # u}
                        ELSE {t \in refreshTokens : ~(t = tok /\ t.user = u)}
    /\ last' = LastStatus("logoutService", u, tok, 200)
    /\ sent' = {} /\ pubd' = {}
    /\ UNCHANGED <<gatewayVars, redisVars, storeVars, regFailed, now, tasks, cidVars,
                   statsVars, exchanged, refreshCalls, requests, friendCalls>>

\* Logins, refreshes and logouts of a user within a few seconds.
TokenNext ==
    \/ \E u \in {UA} : LoginService(u)
    \/ \E tok \in RefreshTokenStrings : RefreshFind(tok)
    \/ \E call \in refreshCalls : RefreshDelete(call)
    \/ \E call \in refreshCalls : RefreshCreate(call)
    \/ \E u \in {UA}, tok \in RefreshTokenStrings \cup {AllDevices} : LogoutService(u, tok)
    \/ ShortTick

TokenSpec == Init /\ [][TokenNext]_vars

\* C38: a refresh token is exchanged successfully at most once: over every
\* interleaving of refreshTokenService and logoutService calls, a call that
\* returns a new pair for a token is the first call to do so for that token.
C38_ExchangedAtMostOnce ==
    [][(/\ last'.op = "refreshTokenService"
        /\ last'.ok
        /\ refreshCalls' # refreshCalls)
       => last'.arg \notin exchanged]_vars

\* ---------------------------------------------------------- friend requests
MaxRequests == 2

\* The two users whose friendship comes and goes.
FriendUsers == {UA, UB}

\* FriendRequest.findById(requestId): the documents with that _id.
RequestsById(id) == {r \in requests : r.id = id}

\* The requests between two users, in either direction.
RequestsBetween(a, b) ==
    {r \in requests : \/ (r.sender = a /\ r.receiver = b)
                      \/ (r.sender = b /\ r.receiver = a)}

\* A service call that has awaited a Store operation and has more to run.
FriendCall(op, pc, user, other, req) ==
    [id |-> CHOOSE i \in 1..MaxCalls :
               /\ \A c \in friendCalls : c.id # i
               /\ \A j \in 1..MaxCalls : (\A c \in friendCalls : c.id # j) => i <= j,
     op |-> op, pc |-> pc, user |-> user, other |-> other, req |-> req]

\* What a step of a friend service leaves alone.
FriendEffects(rec) ==
    /\ last' = rec
    /\ sent' = {} /\ pubd' = {}
    /\ UNCHANGED <<gatewayVars, redisVars, msgs, regFailed, now, tasks, cidVars,
                   statsVars, refreshTokens, exchanged, refreshCalls>>

\* A service throws an AppError before it has changed anything.
FriendRefused(op, user, arg, status) ==
    /\ UNCHANGED <<friends, requests, friendCalls>>
    /\ FriendEffects(LastStatus(op, user, arg, status))

\* sendFriendRequest(senderId, receiverId) up to its first write: the checks
\* on both users and on the existing request between them.
SendFriendRequestFind(senderId, receiverId) ==
    IF senderId = receiverId \/ receiverId \in friends[senderId]
    THEN FriendRefused("sendFriendRequest", senderId, receiverId, 400)
    ELSE IF RequestsBetween(senderId, receiverId) = {}
    THEN /\ Cardinality(friendCalls) < MaxCalls
         /\ friendCalls' = friendCalls \cup
               {FriendCall("sendFriendRequest", "save", senderId, receiverId, 0)}
         /\ UNCHANGED <<friends, requests>>
         /\ FriendEffects(LastCall("sendFriendRequest.findOne", senderId, receiverId, TRUE))
    ELSE \E existingRequest \in RequestsBetween(senderId, receiverId) :
            IF existingRequest.status \in {"pending", "accepted"}
            THEN FriendRefused("sendFriendRequest", senderId, receiverId, 400)
            ELSE /\ Cardinality(friendCalls) < MaxCalls
                 /\ friendCalls' = friendCalls \cup
                       {FriendCall("sendFriendRequest", "delete", senderId, receiverId,
                                   existingRequest.id)}
                 /\ UNCHANGED <<friends, requests>>
                 /\ FriendEffects(LastCall("sendFriendRequest.findOne", senderId,
                                           receiverId, TRUE))

\* await FriendRequest.deleteOne({ _id: existingRequest._id }), for a rejected
\* request
SendFriendRequestDelete(call) ==
    /\ call.op = "sendFriendRequest" /\ call.pc = "delete"
    /\ requests' = requests \ RequestsById(call.req)
    /\ friendCalls' = (friendCalls \ {call}) \cup {[call EXCEPT !.pc = "save", !.req = 0]}
    /\ UNCHANGED friends
    /\ FriendEffects(LastCall("sendFriendRequest.deleteOne", call.user, call.other, TRUE))

\* await friendRequest.save() of the new pending request; the unique index on
\* { sender, receiver } refuses a second document for the pair.
SendFriendRequestSave(call) ==
    /\ call.op = "sendFriendRequest" /\ call.pc = "save"
    /\ friendCalls' = friendCalls \ {call}
    /\ UNCHANGED friends
    /\ IF \E r \in requests : r.sender = call.user /\ r.receiver = call.other
       THEN /\ UNCHANGED requests
            /\ FriendEffects([LastStatus("sendFriendRequest", call.user, call.other, 500)
                                EXCEPT !.reason = "E11000 duplicate key error"])
       ELSE \* the _id of the new document: one no document has and no call holds
            LET free == {i \in 1..MaxRequests :
                            /\ RequestsById(i) = {}
                            /\ \A c \in friendCalls : c.req # i}
            IN  /\ free # {}
                /\ requests' = requests \cup
                      {[id |-> CHOOSE i \in free : \A j \in free : i <= j,
                        sender |-> call.user, receiver |-> call.other,
                        status |-> "pending"]}
                /\ FriendEffects(LastStatus("sendFriendRequest", call.user,
                                             call.other, 200))

\* The checks acceptFriendRequest, rejectFriendRequest and cancelFriendRequest
\* make on the request they found: 0 when they pass, the statusCode of the
\* AppError otherwise. actor is the field that must name the caller.
RequestCheck(requestId, userId, actor) ==
    IF RequestsById(requestId) = {} THEN 404
    ELSE LET friendRequest == CHOOSE r \in RequestsById(requestId) : TRUE
         IN  IF friendRequest[actor] # userId THEN 403
             ELSE IF friendRequest.status # "pending" THEN 400
             ELSE 0

\* acceptFriendRequest(requestId, userId) up to `await friendRequest.save()`
AcceptFriendRequestFind(requestId, userId) ==
    IF RequestCheck(requestId, userId, "receiver") # 0
    THEN FriendRefused("acceptFriendRequest", userId, requestId,
                       RequestCheck(requestId, userId, "receiver"))
    ELSE /\ Cardinality(friendCalls) < MaxCalls
         /\ friendCalls' = friendCalls \cup
               {FriendCall("acceptFriendRequest", "save", userId,
                           (CHOOSE r \in RequestsById(requestId) : TRUE).sender, requestId)}
         /\ UNCHANGED <<friends, requests>>
         /\ FriendEffects(LastCall("acceptFriendRequest.findById", userId, requestId, TRUE))

\* await friendRequest.save() with a new status. When the document has been
\* deleted since it was found, the update matches nothing: save() rejects
\* with a DocumentNotFoundError, or resolves, by the version of Mongoose.
RequestSave(call, status, pc) ==
    /\ UNCHANGED friends
    /\ IF RequestsById(call.req) # {}
       THEN /\ requests' = (requests \ RequestsById(call.req)) \cup
                   {[r EXCEPT !.status = status] : r \in RequestsById(call.req)}
            /\ IF pc = "done"
               THEN /\ friendCalls' = friendCalls \ {call}
                    /\ FriendEffects(LastStatus(call.op, call.user, call.req, 200))
               ELSE /\ friendCalls' = (friendCalls \ {call}) \cup {[call EXCEPT !.pc = pc]}
                    /\ FriendEffects(LastCall("friendRequest.save", call.user, call.req, TRUE))
       ELSE /\ UNCHANGED requests
            /\ \/ /\ friendCalls' = friendCalls \ {call}
                  /\ FriendEffects([LastStatus(call.op, call.user, call.req, 500)
                                      EXCEPT !.reason = "DocumentNotFoundError"])
               \/ IF pc = "done"
                  THEN /\ friendCalls' = friendCalls \ {call}
                       /\ FriendEffects(LastStatus(call.op, call.user, call.req, 200))
                  ELSE /\ friendCalls' = (friendCalls \ {call}) \cup {[call EXCEPT !.pc = pc]}
                       /\ FriendEffects(LastCall("friendRequest.save", call.user,
                                                 call.req, FALSE))

\* friendRequest.status = 'accepted'; await friendRequest.save()
AcceptFriendRequestSave(call) ==
    /\ call.op = "acceptFriendRequest" /\ call.pc = "save"
    /\ RequestSave(call, "accepted", "addSender")

\* await User.findByIdAndUpdate(friendRequest.sender,
\*                              { $addToSet: { friends: friendRequest.receiver } })
AcceptFriendRequestAddSender(call) ==
    /\ call.op = "acceptFriendRequest" /\ call.pc = "addSender"
    /\ friends' = [friends EXCEPT ![call.other] = @ \cup {call.user}]
    /\ friendCalls' = (friendCalls \ {call}) \cup {[call EXCEPT !.pc = "addReceiver"]}
    /\ UNCHANGED requests
    /\ FriendEffects(LastCall("acceptFriendRequest.addToSet", call.user, call.req, TRUE))

\* await User.findByIdAndUpdate(friendRequest.receiver,
\*                              { $addToSet: { friends: friendRequest.sender } }),
\* then the request is returned.
AcceptFriendRequestAddReceiver(call) ==
    /\ call.op = "acceptFriendRequest" /\ call.pc = "addReceiver"
    /\ friends' = [friends EXCEPT ![call.user] = @ \cup {call.other}]
    /\ friendCalls' = friendCalls \ {call}
    /\ UNCHANGED requests
    /\ FriendEffects(LastStatus("acceptFriendRequest", call.user, call.req, 200))

\* rejectFriendRequest(requestId, userId) up to `await friendRequest.save()`
RejectFriendRequestFind(requestId, userId) ==
    IF RequestCheck(requestId, userId, "receiver") # 0
    THEN FriendRefused("rejectFriendRequest", userId, requestId,
                       RequestCheck(requestId, userId, "receiver"))
    ELSE /\ Cardinality(friendCalls) < MaxCalls
         /\ friendCalls' = friendCalls \cup
               {FriendCall("rejectFriendRequest", "save", userId,
                           (CHOOSE r \in RequestsById(requestId) : TRUE).sender, requestId)}
         /\ UNCHANGED <<friends, requests>>
         /\ FriendEffects(LastCall("rejectFriendRequest.findById", userId, requestId, TRUE))

\* friendRequest.status = 'rejected'; await friendRequest.save(); return
RejectFriendRequestSave(call) ==
    /\ call.op = "rejectFriendRequest" /\ call.pc = "save"
    /\ RequestSave(call, "rejected", "done")

\* cancelFriendRequest(requestId, userId) up to `await FriendRequest.deleteOne`
CancelFriendRequestFind(requestId, userId) ==
    IF RequestCheck(requestId, userId, "sender") # 0
    THEN FriendRefused("cancelFriendRequest", userId, requestId,
                       RequestCheck(requestId, userId, "sender"))
    ELSE /\ Cardinality(friendCalls) < MaxCalls
         /\ friendCalls' = friendCalls \cup
               {FriendCall("cancelFriendRequest", "delete", userId,
                           (CHOOSE r \in RequestsById(requestId) : TRUE).receiver, requestId)}
         /\ UNCHANGED <<friends, requests>>
         /\ FriendEffects(LastCall("cancelFriendRequest.findById", userId, requestId, TRUE))

\* await FriendRequest.deleteOne({ _id: requestId }); return
CancelFriendRequestDelete(call) ==
    /\ call.op = "cancelFriendRequest" /\ call.pc = "delete"
    /\ requests' = requests \ RequestsById(call.req)
    /\ friendCalls' = friendCalls \ {call}
    /\ UNCHANGED friends
    /\ FriendEffects(LastStatus("cancelFriendRequest", call.user, call.req, 200))

\* removeFriend(userId, friendId) up to its first $pull: both users are found
\* and friendId must be in the caller's friends list.
RemoveFriendFind(userId, friendId) ==
    IF friendId \notin friends[userId]
    THEN FriendRefused("removeFriend", userId, friendId, 400)
    ELSE /\ Cardinality(friendCalls) < MaxCalls
         /\ friendCalls' = friendCalls \cup
               {FriendCall("removeFriend", "pullUser", userId, friendId, 0)}
         /\ UNCHANGED <<friends, requests>>
         /\ FriendEffects(LastCall("removeFriend.findById", userId, friendId, TRUE))

\* await User.findByIdAndUpdate(userId, { $pull: { friends: friendId } })
RemoveFriendPullUser(call) ==
    /\ call.op = "removeFriend" /\ call.pc = "pullUser"
    /\ friends' = [friends EXCEPT ![call.user] = @ \ {call.other}]
    /\ friendCalls' = (friendCalls \ {call}) \cup {[call EXCEPT !.pc = "pullFriend"]}
    /\ UNCHANGED requests
    /\ FriendEffects(LastCall("removeFriend.pull", call.user, call.other, TRUE))

\* await User.findByIdAndUpdate(friendId, { $pull: { friends: userId } })
RemoveFriendPullFriend(call) ==
    /\ call.op = "removeFriend" /\ call.pc = "pullFriend"
    /\ friends' = [friends EXCEPT ![call.other] = @ \ {call.user}]
    /\ friendCalls' = (friendCalls \ {call}) \cup {[call EXCEPT !.pc = "deleteMany"]}
    /\ UNCHANGED requests
    /\ FriendEffects(LastCall("removeFriend.pull", call.user, call.other, TRUE))

\* await FriendRequest.deleteMany({ $or: [both directions] }); return
RemoveFriendDeleteRequests(call) ==
    /\ call.op = "removeFriend" /\ call.pc = "deleteMany"
    /\ requests' = requests \ RequestsBetween(call.user, call.other)
    /\ friendCalls' = friendCalls \ {call}
    /\ UNCHANGED friends
    /\ FriendEffects(LastStatus("removeFriend", call.user, call.other, 200))

\* The friend services of two users, at most MaxCalls of them at a time.
FriendNext ==
    \/ \E s, r \in FriendUsers : SendFriendRequestFind(s, r)
    \/ \E call \in friendCalls : SendFriendRequestDelete(call)
    \/ \E call \in friendCalls : SendFriendRequestSave(call)
    \/ \E id \in 1..MaxRequests, u \in FriendUsers : AcceptFriendRequestFind(id, u)
    \/ \E call \in friendCalls : AcceptFriendRequestSave(call)
    \/ \E call \in friendCalls : AcceptFriendRequestAddSender(call)
    \/ \E call \in friendCalls : AcceptFriendRequestAddReceiver(call)
    \/ \E id \in 1..MaxRequests, u \in FriendUsers : RejectFriendRequestFind(id, u)
    \/ \E call \in friendCalls : RejectFriendRequestSave(call)
    \/ \E id \in 1..MaxRequests, u \in FriendUsers : CancelFriendRequestFind(id, u)
    \/ \E call \in friendCalls : CancelFriendRequestDelete(call)
    \/ \E u, f \in FriendUsers : RemoveFriendFind(u, f)
    \/ \E call \in friendCalls : RemoveFriendPullUser(call)
    \/ \E call \in friendCalls : RemoveFriendPullFriend(call)
    \/ \E call \in friendCalls : RemoveFriendDeleteRequests(call)

FriendSpec == Init /\ [][FriendNext]_vars

\* C39: friendship is symmetric whenever no friend operation is in progress:
\* after any interleaving of sendFriendRequest, acceptFriendRequest,
\* rejectFriendRequest, cancelFriendRequest and removeFriend calls that have
\* all completed, each user is in the other's friends list or neither is.
C39_FriendshipSymmetric ==
    (friendCalls = {}) =>
        \A a, b \in Users : (b \in friends[a]) <=> (a \in friends[b])
====
